---- MODULE Spec2Model ----
(***************************************************************************)
(* A model of adafruit_hue.Bridge (src/adafruit_hue.py): the constructor   *)
(* with its discovery and registration handshake, and the resource         *)
(* operations on lights, groups and scenes.  The injected WiFi manager and *)
(* the bridge are the environment: every transport call either raises, or  *)
(* returns a response whose json() raises, or returns a response with a    *)
(* parsed body drawn from a small set.                                     *)
(*                                                                         *)
(* Python strings are sequences of one-character strings, so that format() *)
(* and + are real concatenations.  Python values are records               *)
(* [k, s, j]: k is the kind ("unset" for an attribute that was never       *)
(* assigned, "None", "str", "json"), s the characters of a str, j the      *)
(* elements of a parsed JSON list or the items of a dict.                  *)
(***************************************************************************)
EXTENDS Naturals, Sequences, FiniteSets

VARIABLES
    pc,      \* position of the program: start, discover, register, loop,
             \* registered, ready (constructor returned), raised (it raised)
    self,    \* the attributes of the Bridge object
    args,    \* the arguments the constructor was called with
    loc,     \* the locals of register_username
    log,     \* transport requests and sleeps of the current call, in order
    resps,   \* what the transport did for each request of the current call
    lastOp,  \* the method that completed last
    call,    \* the arguments of the resource operation that completed last
    result,  \* how the method that completed last ended
    raised   \* the exception the constructor raised, if any

vars == <<pc, self, args, loc, log, resps, lastOp, call, result, raised>>

---------------------------------------------------------------------------
(* Python values *)

Unset == [k |-> "unset", s |-> <<>>, j |-> <<>>]
None == [k |-> "None", s |-> <<>>, j |-> <<>>]
Str(c) == [k |-> "str", s |-> c, j |-> <<>>]
Json(l) == [k |-> "json", s |-> <<>>, j |-> l]

\* One item of a dict: a key, for a nested dict the inner key, and the value
\* as characters.
Item(key, inner, val) == [key |-> key, inner |-> inner, val |-> val]

\* bool(v) for the values above.
Truthy(v) == (v.k = "str" /\ v.s # <<>>) \/ (v.k = "json" /\ v.j # <<>>)

\* str(v), as '{}'.format(v) inserts it.
FormatStr(v) == IF v.k = "None" THEN <<"N", "o", "n", "e">> ELSE v.s

DigitChars == <<"0", "1", "2", "3", "4", "5", "6", "7", "8", "9">>

RECURSIVE IntStr(_)
\* str(n) for an int n >= 0.
IntStr(n) ==
    IF n < 10 THEN <<DigitChars[n + 1]>>
    ELSE IntStr(n \div 10) \o <<DigitChars[(n % 10) + 1]>>

\* An exception: its type, its message and the values formatted into it.
Exc(type, msg, carried) == [type |-> type, msg |-> msg, carried |-> carried]
NoExc == Exc("", "", <<>>)

Returned(v) == [raised |-> FALSE, exc |-> NoExc, val |-> v]
Raised(e) == [raised |-> TRUE, exc |-> e, val |-> None]
NoResult == [raised |-> FALSE, exc |-> NoExc, val |-> Unset]

---------------------------------------------------------------------------
(* String literals of the source *)

HttpPrefix == <<"h", "t", "t", "p", ":", "/", "/">>
ApiSuffix == <<"/", "a", "p", "i">>
Slash == <<"/">>
DiscoveryUrl ==
    <<"h", "t", "t", "p", "s", ":", "/", "/", "d", "i", "s", "c", "o", "v",
      "e", "r", "y", ".", "m", "e", "e", "t", "h", "u", "e", ".", "c", "o", "m">>
DeviceTypePrefix ==
    <<"C", "i", "r", "c", "u", "i", "t", "P", "y", "t", "h", "o", "n", "#",
      "p", "y", "p", "o", "r", "t", "a", "l">>
LightsPath == <<"/", "l", "i", "g", "h", "t", "s">>
GroupsPath == <<"/", "g", "r", "o", "u", "p", "s">>
ScenesPath == <<"/", "s", "c", "e", "n", "e", "s">>
StateSuffix == <<"/", "s", "t", "a", "t", "e">>
ActionSuffix == <<"/", "a", "c", "t", "i", "o", "n">>

\* The budget of the registration loop.
ConnectionAttempts == 30

---------------------------------------------------------------------------
(* Inputs and the environment *)

\* str(type(wifi_manager)) of the objects a caller may pass, in pieces.
WifiTypes ==
    { <<"<class '", "adafruit_esp32spi_wifimanager.", "ESPSPI_WiFiManager", "'>">>,
      <<"<class '", "adafruit_espatcontrol_wifimanager.", "ESPAT_WiFiManager", "'>">>,
      <<"<class '", "dict", "'>">> }

Ip1 == <<"1", "0", ".", "0", ".", "0", ".", "5">>
Ip2 == <<"1", "9", "2", ".", "1", "6", "8", ".", "1", ".", "2">>
User1 == <<"a", "b", "c", "1", "2", "3">>
User2 == <<"x", "9">>

BridgeIpArgs == {None, Str(<<>>), Str(Ip1), Str(Ip2)}
UsernameArgs == {None, Str(<<>>), Str(User1), Str(User2)}

\* Values randint(0, 100) may return: the two ends of its range.
RandMin == 0
RandMax == 100
RandSuffixes == {RandMin, RandMax}

\* What the transport does with one request: it raises, or it returns a
\* response whose json() raises ("parse"), or one whose json() is `json`.
Outcome(fail, json) == [fail |-> fail, json |-> json, closed |-> 0]
TransportFails == Outcome("transport", <<>>)
ParseFails == Outcome("parse", <<>>)
Body(json) == Outcome("none", json)

ErrorItem == Item("error", "description", <<"l", "i", "n", "k">>)

DiscoveryOutcomes ==
    { TransportFails, ParseFails, Body(<<>>),
      Body(<<Item("id", "", <<"0", "0", "1">>)>>),
      Body(<<Item("internalipaddress", "", Ip1)>>),
      Body(<<Item("internalipaddress", "", Ip2), Item("internalipaddress", "", Ip1)>>) }

PairingOutcomes ==
    { TransportFails, ParseFails, Body(<<>>), Body(<<ErrorItem>>),
      Body(<<Item("success", "clientkey", User2)>>),
      Body(<<Item("success", "username", User1)>>),
      Body(<<Item("success", "username", User2), ErrorItem>>) }

\* The response to the first pairing request, which line 95 only stores.
FirstPairingOutcomes ==
    { TransportFails, Body(<<ErrorItem>>), Body(<<Item("success", "username", User2)>>) }

ResourceOutcomes ==
    { TransportFails, ParseFails,
      Body(<<Item("success", "/lights/1/state/on", <<"t", "r", "u", "e">>)>>),
      Body(<<ErrorItem>>) }

\* The exceptions of the collaborators: the transport's, and json()'s.
TransportExc == Exc("RuntimeError", "transport", <<>>)
ParseExc == Exc("ValueError", "json", <<>>)

\* One entry of the log.
Request(m, url, body) == [m |-> m, url |-> url, body |-> body]
Sleep == [m |-> "sleep", url |-> <<>>, body |-> None]
Printed(v) == [m |-> "print", url |-> <<>>, body |-> v]
IsRequest(e) == e.m \in {"GET", "POST", "PUT"}
IsPost(e) == e.m = "POST"
IsSleep(e) == e.m = "sleep"

\* resp.close() on the response of request i.
Close(rs, i) == [rs EXCEPT ![i].closed = @ + 1]

---------------------------------------------------------------------------
(* The object *)

NoSelf ==
    [_wifi |-> Unset, _bridge_url |-> Unset, _username_url |-> Unset,
     _bridge_ip |-> Unset, _username |-> Unset, _ip |-> Unset,
     bridge_url |-> Unset]
NoArgs == [wifi |-> <<>>, bridge_ip |-> Unset, username |-> Unset]
NoLoc == [connection_attempts |-> 0, username |-> Unset, data |-> Unset, resp |-> 0]
NoCall == [id |-> 0, data |-> Unset]

Init ==
    /\ pc = "start"
    /\ self = NoSelf
    /\ args = NoArgs
    /\ loc = NoLoc
    /\ log = <<>>
    /\ resps = <<>>
    /\ lastOp = ""
    /\ call = NoCall
    /\ result = NoResult
    /\ raised = NoExc

---------------------------------------------------------------------------
(* Bridge.__init__, lines 57-65 *)

Contains(pieces, name) == \E i \in 1..Len(pieces) : pieces[i] = name

\* The test of line 58 on str(type(wifi_manager)).
AcceptedWifi(wifi_type) ==
    Contains(wifi_type, "ESPSPI_WiFiManager") \/ Contains(wifi_type, "ESPAT_WiFiManager")

WifiTypeError == Exc("TypeError", "This library requires a WiFiManager object.", <<>>)

\* Mutant of BothProvided: `or` in place of `and`.
BothProvidedOr(bridge_ip, username) == Truthy(bridge_ip) \/ username.k # "None"

\* The test of line 62: bridge_ip and username is not None.
BothProvided(bridge_ip, username) == Truthy(bridge_ip) /\ username.k # "None"

\* 'http://{}/api'.format(ip)
ApiUrl(ip) == HttpPrefix \o FormatStr(ip) \o ApiSuffix

\* Mutant of UsernameUrl: the '/' left out.
UsernameUrlNoSlash(bridge_url, username) == bridge_url \o username

\* self._bridge_url + '/' + username
UsernameUrl(bridge_url, username) == bridge_url \o Slash \o username

Construct(wifi, bridge_ip, username) ==
    /\ pc = "start"
    /\ args' = [wifi |-> wifi, bridge_ip |-> bridge_ip, username |-> username]
    /\ UNCHANGED <<loc, log, resps, call>>
    /\ IF ~AcceptedWifi(wifi)
       THEN /\ pc' = "raised"
            /\ raised' = WifiTypeError
            /\ result' = Raised(WifiTypeError)
            /\ lastOp' = "__init__"
            /\ UNCHANGED self
       ELSE IF BothProvided(bridge_ip, username)
       THEN /\ self' = [self EXCEPT
                         !._wifi = Str(wifi),
                         !._bridge_url = Str(ApiUrl(bridge_ip)),
                         !._username_url =
                             Str(UsernameUrl(ApiUrl(bridge_ip), username.s))]
            /\ pc' = "ready"
            /\ result' = Returned(None)
            /\ lastOp' = "__init__"
            /\ UNCHANGED raised
       ELSE /\ self' = [self EXCEPT !._wifi = Str(wifi)]
            /\ pc' = "discover"
            /\ UNCHANGED <<result, lastOp, raised>>

---------------------------------------------------------------------------
(* Bridge.discover_bridge, and the store of its result at line 66 *)

DiscoveryError ==
    Exc("TypeError",
        "Ensure the Philips Bridge and CircuitPython device are both on the same WiFi network.",
        <<>>)

\* The exception the try block (lines 77-80) ends with, NoExc if it completes.
DiscoverTry(out) ==
    IF out.fail = "transport" THEN TransportExc
    ELSE IF out.fail = "parse" THEN ParseExc
    ELSE IF out.json = <<>> THEN Exc("IndexError", "list index out of range", <<>>)
    ELSE IF out.json[1].key # "internalipaddress"
    THEN Exc("KeyError", "internalipaddress", <<>>)
    ELSE NoExc

\* Mutant of DiscoverExcept: an except clause that catches the transport's
\* exception only.
DiscoverExceptNarrow(e) == IF e = TransportExc THEN DiscoveryError ELSE e

\* The bare except of lines 81-82.
DiscoverExcept(e) == IF e # NoExc THEN DiscoveryError ELSE NoExc

DiscoverBridge ==
    /\ pc = "discover"
    /\ \E out \in DiscoveryOutcomes :
         LET tried == DiscoverTry(out)
             e == DiscoverExcept(tried)
             ip == Str(out.json[1].val)
         IN  /\ log' = Append(log, Request("GET", DiscoveryUrl, Unset))
             /\ resps' = Append(resps, [out EXCEPT !.closed = IF tried = NoExc THEN 1 ELSE 0])
             /\ lastOp' = "discover_bridge"
             /\ IF e # NoExc
                THEN /\ pc' = "raised"
                     /\ raised' = e
                     /\ result' = Raised(e)
                     /\ UNCHANGED self
                ELSE /\ self' = [self EXCEPT !._ip = ip,
                                              !.bridge_url = Str(ApiUrl(ip)),
                                              !._bridge_ip = ip]
                     /\ pc' = "register"
                     /\ result' = Returned(ip)
                     /\ UNCHANGED raised
    /\ UNCHANGED <<args, loc, call>>

---------------------------------------------------------------------------
(* Bridge.register_username, and the end of __init__ (lines 67-70) *)

\* The request body of line 94.
DeviceType(r) == Json(<<Item("devicetype", "", DeviceTypePrefix \o IntStr(r))>>)

\* Mutant of LoopCond: the budget short by one.
LoopCondShort(username, connection_attempts) ==
    username.k = "None" /\ connection_attempts > 1

\* The loop test of line 98.
LoopCond(username, connection_attempts) ==
    username.k = "None" /\ connection_attempts > 0

\* The exception lines 99-102 end with for one response, NoExc if they complete.
AttemptExc(out) ==
    IF out.fail = "transport" THEN TransportExc
    ELSE IF out.fail = "parse" THEN ParseExc
    ELSE IF out.json = <<>> THEN Exc("IndexError", "list index out of range", <<>>)
    ELSE IF out.json[1].key = "success" /\ out.json[1].inner # "username"
    THEN Exc("KeyError", "username", <<>>)
    ELSE NoExc

\* json.get('success') of line 101, on the first element of the response.
HasSuccess(out) == out.json[1].key = "success"

\* Lines 93-97: the URL, the body, the first request, the loop's locals.
RegisterStart ==
    /\ pc = "register"
    /\ \E r \in RandSuffixes, out \in FirstPairingOutcomes :
         LET url == ApiUrl(self._bridge_ip)
             data == DeviceType(r)
         IN  /\ self' = [self EXCEPT !._bridge_url = Str(url)]
             /\ log' = Append(log, Request("POST", url, data))
             /\ resps' = Append(resps, out)
             /\ IF out.fail = "transport"
                THEN /\ pc' = "raised"
                     /\ raised' = TransportExc
                     /\ result' = Raised(TransportExc)
                     /\ lastOp' = "register_username"
                     /\ UNCHANGED loc
                ELSE /\ pc' = "loop"
                     /\ loc' = [connection_attempts |-> ConnectionAttempts,
                                username |-> None,
                                data |-> data,
                                resp |-> Len(resps) + 1]
                     /\ UNCHANGED <<result, lastOp, raised>>
    /\ UNCHANGED <<args, call>>

\* One pass through the loop body, lines 98-105.
RegisterAttempt ==
    /\ pc = "loop"
    /\ LoopCond(loc.username, loc.connection_attempts)
    /\ \E out \in PairingOutcomes :
         LET e == AttemptExc(out)
             sent == Append(log, Request("POST", self._bridge_url.s, loc.data))
         IN  /\ resps' = Append(resps, out)
             /\ IF e # NoExc
                THEN /\ log' = sent
                     /\ pc' = "raised"
                     /\ raised' = e
                     /\ result' = Raised(e)
                     /\ lastOp' = "register_username"
                     /\ loc' = NoLoc
                     /\ UNCHANGED self
                ELSE /\ log' = Append(sent, Sleep)
                     /\ loc' = [loc EXCEPT
                                !.resp = Len(resps) + 1,
                                !.username =
                                    IF HasSuccess(out) THEN Str(out.json[1].val) ELSE @,
                                !.connection_attempts = @ - 1]
                     /\ self' = IF HasSuccess(out)
                                THEN [self EXCEPT !._username_url =
                                        Str(UsernameUrl(self._bridge_url.s, out.json[1].val))]
                                ELSE self
                     /\ UNCHANGED <<pc, raised, result, lastOp>>
    /\ UNCHANGED <<args, call>>

\* Lines 106-107: the loop is over.
RegisterFinish ==
    /\ pc = "loop"
    /\ ~LoopCond(loc.username, loc.connection_attempts)
    /\ resps' = Close(resps, loc.resp)
    /\ result' = Returned(loc.username)
    /\ lastOp' = "register_username"
    /\ loc' = NoLoc
    /\ pc' = "registered"
    /\ UNCHANGED <<self, args, log, call, raised>>

\* The exception of lines 68-70, with the two values formatted into it.
SetupRequired(bridge_ip, username) ==
    Exc("AssertionError", "ADD THESE VALUES TO SECRETS.PY",
        <<FormatStr(bridge_ip), FormatStr(username)>>)

\* Lines 67-70: the store of the username, and the raise.
ConstructRaise ==
    /\ pc = "registered"
    /\ self' = [self EXCEPT !._username = result.val]
    /\ raised' = SetupRequired(self._bridge_ip, result.val)
    /\ result' = Raised(SetupRequired(self._bridge_ip, result.val))
    /\ lastOp' = "__init__"
    /\ pc' = "raised"
    /\ UNCHANGED <<args, loc, log, resps, call>>

---------------------------------------------------------------------------
(* The resource operations *)

LightIds == {5, 12}
GroupIds == {3}
SceneIds == {<<"s", "1">>, <<"A", "b">>}
TrueChars == <<"T", "r", "u", "e">>
KwargsSets ==
    { Json(<<>>),
      Json(<<Item("on", "", TrueChars), Item("bri", "", IntStr(200))>>) }
LightLists == {<<"[", "]">>, <<"[", "1", ",", " ", "2", "]">>}
GroupNames == {<<"d", "e", "n">>}

\* What one call did: its log entries, its responses, and how it ended.
Ran(lg, rs, res) == [log |-> lg, resps |-> rs, result |-> res]

\* Reading self._username_url when __init__ never assigned it.
NoUrlError == Exc("AttributeError", "_username_url", <<>>)

\* Evaluating the name lightGroup at line 158: the module defines no such name.
LightGroupError == Exc("NameError", "lightGroup", <<>>)

\* How the lines  resp_json = resp.json(); resp.close(); return resp_json
\* end for a response, and whether close() is reached.
ReadJson(out) == IF out.fail = "parse" THEN Raised(ParseExc) ELSE Returned(Json(out.json))

\* self._get / self._put / self._post (lines 206-237) with the transport's
\* outcome, followed by the three lines that read, close and return.
Exchange(m, url, body, out) ==
    IF out.fail = "transport"
    THEN Ran(<<Request(m, url, body)>>, <<out>>, Raised(TransportExc))
    ELSE Ran(<<Request(m, url, body)>>,
             <<[out EXCEPT !.closed = IF ReadJson(out).raised THEN 0 ELSE 1]>>,
             ReadJson(out))

\* show_light_info and get_light: GET {url}/lights/{id}
GetLightRun(obj, light_id, out) ==
    IF obj._username_url.k = "unset" THEN Ran(<<>>, <<>>, Raised(NoUrlError))
    ELSE Exchange("GET", obj._username_url.s \o LightsPath \o Slash \o IntStr(light_id),
                  None, out)

\* set_light: PUT {url}/lights/{id}/state
SetLightRun(obj, light_id, kwargs, out) ==
    IF obj._username_url.k = "unset" THEN Ran(<<>>, <<>>, Raised(NoUrlError))
    ELSE Exchange("PUT",
                  obj._username_url.s \o LightsPath \o Slash \o IntStr(light_id)
                      \o StateSuffix,
                  kwargs, out)

\* get_lights, get_groups, get_scenes: GET {url}{path}
GetAllRun(obj, path, out) ==
    IF obj._username_url.k = "unset" THEN Ran(<<>>, <<>>, Raised(NoUrlError))
    ELSE Exchange("GET", obj._username_url.s \o path, None, out)

\* create_group: building the body raises before the URL is read.
CreateGroupRun(obj, lights, group_id, out) == Ran(<<>>, <<>>, Raised(LightGroupError))

\* set_group: print(kwargs), then PUT {url}/groups/{id}/action
SetGroupRun(obj, group_id, kwargs, out) ==
    IF obj._username_url.k = "unset"
    THEN Ran(<<Printed(kwargs)>>, <<>>, Raised(NoUrlError))
    ELSE LET x == Exchange("PUT",
                           obj._username_url.s \o GroupsPath \o Slash \o IntStr(group_id)
                               \o ActionSuffix,
                           kwargs, out)
         IN  Ran(<<Printed(kwargs)>> \o x.log, x.resps, x.result)

\* set_scene: calls set_group(group_id, scene=scene_id) and returns nothing.
SetSceneRun(obj, group_id, scene_id, out) ==
    LET x == SetGroupRun(obj, group_id, Json(<<Item("scene", "", scene_id)>>), out)
    IN  Ran(x.log, x.resps, IF x.result.raised THEN x.result ELSE Returned(None))

\* A method can be called on the object once __init__ has returned, and also
\* once __init__ has ended the handshake by raising the exception of line 68:
\* a subclass __init__ that catches it keeps the object, with the attributes
\* the handshake assigned.
Callable == pc = "ready" \/ (pc = "raised" /\ raised.type = "AssertionError")

Complete(op, id, data, x) ==
    /\ lastOp' = op
    /\ call' = [id |-> id, data |-> data]
    /\ log' = x.log
    /\ resps' = x.resps
    /\ result' = x.result
    /\ UNCHANGED <<pc, self, args, loc, raised>>

ShowLightInfo ==
    /\ Callable
    /\ \E light_id \in LightIds, out \in ResourceOutcomes :
         Complete("show_light_info", light_id, None, GetLightRun(self, light_id, out))

SetLight ==
    /\ Callable
    /\ \E light_id \in LightIds, kwargs \in KwargsSets, out \in ResourceOutcomes :
         Complete("set_light", light_id, kwargs, SetLightRun(self, light_id, kwargs, out))

GetLight ==
    /\ Callable
    /\ \E light_id \in LightIds, out \in ResourceOutcomes :
         Complete("get_light", light_id, None, GetLightRun(self, light_id, out))

GetLights ==
    /\ Callable
    /\ \E out \in ResourceOutcomes :
         Complete("get_lights", 0, None, GetAllRun(self, LightsPath, out))

CreateGroup ==
    /\ Callable
    /\ \E lights \in LightLists, group_id \in GroupNames, out \in ResourceOutcomes :
         Complete("create_group", 0,
                  Json(<<Item("lights", "", lights), Item("name", "", group_id)>>),
                  CreateGroupRun(self, lights, group_id, out))

SetGroup ==
    /\ Callable
    /\ \E group_id \in GroupIds, kwargs \in KwargsSets, out \in ResourceOutcomes :
         Complete("set_group", group_id, kwargs, SetGroupRun(self, group_id, kwargs, out))

GetGroups ==
    /\ Callable
    /\ \E out \in ResourceOutcomes :
         Complete("get_groups", 0, None, GetAllRun(self, GroupsPath, out))

SetScene ==
    /\ Callable
    /\ \E group_id \in GroupIds, scene_id \in SceneIds, out \in ResourceOutcomes :
         Complete("set_scene", group_id, Str(scene_id),
                  SetSceneRun(self, group_id, scene_id, out))

GetScenes ==
    /\ Callable
    /\ \E out \in ResourceOutcomes :
         Complete("get_scenes", 0, None, GetAllRun(self, ScenesPath, out))

---------------------------------------------------------------------------

Next ==
    \/ \E wifi \in WifiTypes, bridge_ip \in BridgeIpArgs, username \in UsernameArgs :
         Construct(wifi, bridge_ip, username)
    \/ DiscoverBridge
    \/ RegisterStart
    \/ RegisterAttempt
    \/ RegisterFinish
    \/ ConstructRaise
    \/ ShowLightInfo
    \/ SetLight
    \/ GetLight
    \/ GetLights
    \/ CreateGroup
    \/ SetGroup
    \/ GetGroups
    \/ SetScene
    \/ GetScenes

Spec == Init /\ [][Next]_vars

---------------------------------------------------------------------------
(* Vocabulary of the properties *)

ResourceOps ==
    {"show_light_info", "set_light", "get_light", "get_lights", "create_group",
     "set_group", "get_groups", "set_scene", "get_scenes"}

Count(lg, m) == Cardinality({i \in 1..Len(lg) : lg[i].m = m})
RequestCount(lg) == Cardinality({i \in 1..Len(lg) : IsRequest(lg[i])})

\* The response carries success.username in its first element.
CarriesUsername(r) ==
    /\ r.fail = "none"
    /\ r.json # <<>>
    /\ r.json[1].key = "success"
    /\ r.json[1].inner = "username"

\* The response is an error element.
CarriesError(r) == r.fail = "none" /\ r.json # <<>> /\ r.json[1].key = "error"

\* During the constructor the responses are: 1 the discovery response, 2 the
\* response to the first pairing request, 2 + n that of the n-th pass of the loop.
PairingResponses == 2..Len(resps)

\* register_username has just ended (returned or raised).
RegisterEnded == lastOp = "register_username"

\* The client has a URL built from a non-empty username.
HasUrl == self._username_url.k = "str"
NoUsername == ~HasUrl \/ self._username_url.s = self._bridge_url.s \o Slash

\* The constructor was given an accepted transport and lacks the address or
\* the username.
SetupPath ==
    /\ pc # "start"
    /\ AcceptedWifi(args.wifi)
    /\ (args.bridge_ip.k = "None" \/ args.username.k = "None")

\* The constructor was given an accepted transport, an address and a username.
ProvidedPath ==
    /\ pc # "start"
    /\ AcceptedWifi(args.wifi)
    /\ args.bridge_ip.k = "str" /\ args.bridge_ip.s # <<>>
    /\ args.username.k = "str"

\* No resource operation has been called since the constructor's last step.
InConstructor == lastOp \notin ResourceOps

---------------------------------------------------------------------------
(* C1 *)

\* C1, as stated: when loop pass N is the first pairing response that carries
\* success.username = u, register_username ends after that pass having sent
\* nothing and slept no more after the successful response, returns u, and
\* the authenticated URL is the base URL + '/' + u.  (N numbers the passes
\* of the loop, whose responses the code reads.)
C1_StopsAtSuccess ==
    (RegisterEnded /\ ~result.raised) =>
        \A n \in 1..ConnectionAttempts :
            (/\ n + 2 <= Len(resps)
             /\ CarriesUsername(resps[n + 2])
             /\ \A k \in 1..(n - 1) : ~CarriesUsername(resps[k + 2]))
            => /\ Len(resps) = n + 2
               /\ result.val = Str(resps[n + 2].json[1].val)
               /\ self._username_url =
                    Str(self._bridge_url.s \o Slash \o resps[n + 2].json[1].val)
               /\ Count(log, "POST") = n + 1
               /\ IsPost(log[Len(log)])

---------------------------------------------------------------------------
(* C2 *)

AllPairingErrors == \A i \in PairingResponses : CarriesError(resps[i])

\* C2, as stated: with only error responses register_username returns an
\* absent username after exactly 30 pairing requests and 29 sleeps, each
\* sleep between two consecutive requests.
C2_ThirtyRequests ==
    (RegisterEnded /\ AllPairingErrors) =>
        /\ result = Returned(None)
        /\ Count(log, "POST") = 30
        /\ Count(log, "sleep") = 29
        /\ \A i \in 1..Len(log) :
             IsSleep(log[i]) => (i > 1 /\ i < Len(log) /\ IsPost(log[i - 1]) /\ IsPost(log[i + 1]))

\* C2, amended: with only error responses register_username returns an
\* absent username without raising, after exactly 31 pairing requests (the
\* first one, whose response is not read, and one per pass of the loop's 30
\* passes) and exactly 30 sleeps, one right after the request of each pass;
\* the last sleep follows the last request.
C2_ThirtyOneRequests ==
    (RegisterEnded /\ AllPairingErrors) =>
        /\ result = Returned(None)
        /\ pc = "registered"
        /\ Count(log, "POST") = ConnectionAttempts + 1
        /\ Count(log, "sleep") = ConnectionAttempts
        /\ Len(log) = 2 * ConnectionAttempts + 2
        /\ IsPost(log[2])
        /\ \A n \in 1..ConnectionAttempts :
             IsPost(log[2 * n + 1]) /\ IsSleep(log[2 * n + 2])

\* C2: register_username has returned after a full run of error responses.
C2_Witness ==
    /\ RegisterEnded
    /\ AllPairingErrors
    /\ Len(resps) = ConnectionAttempts + 2
    /\ result = Returned(None)

---------------------------------------------------------------------------
(* C3 *)

\* The username registration obtained, as the responses tell it.
Obtained ==
    IF CarriesUsername(resps[Len(resps)])
    THEN resps[Len(resps)].json[1].val
    ELSE FormatStr(None)

\* C3: constructed with an accepted transport and without the address or the
\* username, the constructor sends the discovery request before any pairing
\* request, never returns a client, and once registration has returned it
\* ends by raising the setup-required exception carrying the discovered
\* address and the obtained username.
C3_SetupRequired ==
    SetupPath =>
        /\ pc # "ready"
        /\ InConstructor =>
             \A i \in 1..Len(log) :
                 IsPost(log[i]) =>
                     \E j \in 1..(i - 1) : log[j] = Request("GET", DiscoveryUrl, Unset)
        /\ pc = "registered" => (~result.raised /\ raised = NoExc)
        /\ (lastOp = "__init__" /\ pc = "raised") =>
             /\ raised.type = "AssertionError"
             /\ raised.carried = <<resps[1].json[1].val, Obtained>>
             /\ result = Raised(raised)

\* C3: the constructor has raised setup-required with a discovered address
\* and an obtained username.
C3_Witness ==
    /\ SetupPath
    /\ lastOp = "__init__"
    /\ raised.type = "AssertionError"
    /\ raised.carried = <<Ip2, User1>>

---------------------------------------------------------------------------
(* C4 *)

ApiSlash == <<"/", "a", "p", "i", "/">>

\* C4: constructed with an accepted transport, an address and a username,
\* the constructor returns a ready client without a single transport call,
\* and the authenticated URL is http://{address}/api/{username}.
C4_ProvidedCredentials ==
    ProvidedPath =>
        /\ pc = "ready"
        /\ raised = NoExc
        /\ self._username_url =
             Str(HttpPrefix \o args.bridge_ip.s \o ApiSlash \o args.username.s)
        /\ lastOp = "__init__" => (log = <<>> /\ resps = <<>> /\ result = Returned(None))

\* C4: the constructor has just returned a client built from both values.
C4_Witness ==
    /\ ProvidedPath
    /\ lastOp = "__init__"
    /\ pc = "ready"
    /\ args.username = Str(User1)

---------------------------------------------------------------------------
(* C5 *)

\* C5, as stated: a resource operation on a client without a username ends
\* with NotAuthenticatedError and sends no request.
C5_NotAuthenticated ==
    (lastOp \in ResourceOps /\ NoUsername) =>
        /\ result.raised
        /\ result.exc.type = "NotAuthenticatedError"
        /\ RequestCount(log) = 0

---------------------------------------------------------------------------
(* C6 *)

\* The discovery request failed, or its body did not parse, or it is an
\* empty list, or its first element lacks the address.
DiscoveryUnusable ==
    \/ resps[1].fail \in {"transport", "parse"}
    \/ resps[1].json = <<>>
    \/ resps[1].json[1].key # "internalipaddress"

\* C6: when the discovery request fails in the transport, or the body does
\* not parse or lacks the address, or the list is empty, discover_bridge
\* raises the discovery error (the TypeError of line 82) and no other
\* exception.
C6_DiscoveryError ==
    (lastOp = "discover_bridge" /\ DiscoveryUnusable) =>
        /\ result = Raised(DiscoveryError)
        /\ raised = DiscoveryError
        /\ pc = "raised"

\* C6: discover_bridge has raised on an empty list.
C6_Witness ==
    /\ lastOp = "discover_bridge"
    /\ resps[1].fail = "none"
    /\ resps[1].json = <<>>
    /\ result.raised

---------------------------------------------------------------------------
(* C7 *)

\* C7, as stated: when the request of a resource operation on an
\* authenticated client fails in the transport or its body does not parse,
\* the operation ends with ApiRequestError carrying the method and the path,
\* after that one request.
C7_ApiRequestError ==
    (/\ lastOp \in ResourceOps
     /\ HasUrl
     /\ resps # <<>>
     /\ resps[1].fail \in {"transport", "parse"})
    => /\ result.raised
       /\ result.exc.type = "ApiRequestError"
       /\ RequestCount(log) = 1
       /\ \E i \in 1..Len(log) :
            IsRequest(log[i]) /\ result.exc.carried = <<log[i].m, log[i].url>>

---------------------------------------------------------------------------
(* C8 *)

\* C8, as stated: set_scene(g, s) sends the request set_group(g, scene=s)
\* sends, and gives the caller what set_group gives for it.
C8_SceneIsGroupAction ==
    (lastOp = "set_scene" /\ HasUrl /\ resps # <<>>) =>
        LET x == SetGroupRun(self, call.id, Json(<<Item("scene", "", call.data.s)>>),
                             [resps[1] EXCEPT !.closed = 0])
        IN  /\ log = x.log
            /\ RequestCount(log) = 1
            /\ result = x.result

---------------------------------------------------------------------------
(* C9 *)

\* C9, as stated: create_group on an authenticated client sends exactly one
\* POST to {authenticated URL}/groups whose body holds the lights and the
\* name, and returns the parsed body of the response.
C9_CreateGroupPosts ==
    (lastOp = "create_group" /\ HasUrl) =>
        /\ RequestCount(log) = 1
        /\ \E i \in 1..Len(log) :
             /\ log[i].m = "POST"
             /\ log[i].url = self._username_url.s \o GroupsPath
             /\ \A k \in 1..Len(call.data.j) :
                  \E b \in 1..Len(log[i].body.j) : log[i].body.j[b] = call.data.j[k]
        /\ (Len(resps) = 1 /\ resps[1].fail = "none") => result = Returned(Json(resps[1].json))

---------------------------------------------------------------------------
(* C10 *)

\* An operation has just ended: the responses of RespondedTo are its own.
OperationEnded ==
    \/ lastOp = "discover_bridge" /\ pc \in {"register", "raised"}
    \/ lastOp = "register_username"
    \/ lastOp \in ResourceOps

\* C10, as stated: when an operation ends, every response it obtained from
\* the transport has been closed exactly once.
C10_ClosedOnce ==
    OperationEnded =>
        \A i \in 1..Len(resps) : resps[i].fail # "transport" => resps[i].closed = 1

====
